---- MODULE Spec2Model ----
(***************************************************************************)
(* Stealth addresses (stealth.go) and linkable ring signatures (ring.go).  *)
(*                                                                         *)
(* The curve is a cyclic group of prime order N.  A point is written as    *)
(* its discrete logarithm to the base point G: the point [k]G is the       *)
(* integer k % N, the identity is 0.  OffCurve is a value of type          *)
(* CurvePoint that is no group element, NilPoint a nil *CurvePoint.        *)
(* Byte strings are sequences of naturals; a 32-byte block (a coordinate,  *)
(* a digest) is one element.                                               *)
(***************************************************************************)
EXTENDS Integers, Sequences, FiniteSets, TLC

\* ------------------------------------------------------------ bounds
MaxRing == 2        \* largest ring
HashLen == 1        \* length of the message buffer ([32]byte in the source)
MaxCount == 3       \* largest addressCount
IntBits == 3        \* width of the machine type int
ByteBase == 4       \* number of values of one byte of nonce.Bytes()
MaxSecretLen == 2   \* longest secret handed to the Stealth*Derive functions

VARIABLES
    N,                \* the order of the curve's group, CurvePoint{}.Order()
    identityOnCurve,  \* whether CurvePoint.IsOnCurve accepts the identity
    pc,               \* the caller's position
    derived,          \* the last StealthPrivDerive / StealthPubDerive results
    sessionA,         \* the last NewStealthSession call of party A
    sessionB,         \* the matching NewStealthSession call of party B
    ring,             \* the Ring: PubKeys and PrivKeys
    message,          \* the message handed to Signature / VerifySignature
    callerPk,         \* the big.Int the caller passed to Signature as pk
    sigma,            \* the RingSignature: Tau and the big.Ints of Ctlist
    first,            \* the key image of an earlier Signature call
    signRet,          \* the last Signature call
    verifyRet         \* the last VerifySignature call

stealthVars == <<derived, sessionA, sessionB>>
ringVars == <<ring, message, callerPk, sigma, first, signRet, verifyRet>>
vars == <<N, identityOnCurve, pc, stealthVars, ringVars>>

\* ------------------------------------------------------------ curve
\* The group orders the two specifications run over (the curve is an input).
StealthOrder == 5
RingOrder == 3
\* number of digests of Sha256: a digest, read as an integer, may exceed N
HashSpace == 2 * N + 1

OffCurve == N
NilPoint == 0 - 1
GroupPoints == 0 .. (N - 1)
Points == GroupPoints \cup {OffCurve}

RandomN == 1 .. (N - 1)

ScalarBaseMult(k) == k % N

ScalarMult(P, k) == IF P \in GroupPoints THEN (P * (k % N)) % N ELSE OffCurve

Add(P, Q) == IF P \in GroupPoints /\ Q \in GroupPoints THEN (P + Q) % N ELSE OffCurve

\* [t]G + [c]P
ParameterPointAdd(P, t, c) == Add(ScalarBaseMult(t), ScalarMult(P, c))

\* [t]hp + [c]y
HashPointAdd(hp, y, t, c) == Add(ScalarMult(hp, t), ScalarMult(y, c))

\* P and -P share the x coordinate; the y coordinate tells them apart.
XCoord(P) == IF P \in GroupPoints /\ 2 * P > N THEN N - P ELSE P

YCoord(P) == IF P \in GroupPoints /\ 2 * P > N THEN 1 ELSE 0

Marshal(P) == <<XCoord(P), YCoord(P)>>

RECURSIVE ShaFold(_, _)
ShaFold(data, h) ==
    IF data = <<>> THEN h
    ELSE ShaFold(Tail(data), (3 * h + Head(data) + 1) % HashSpace)

Sha256(data) == ShaFold(data, 1)

NewCurvePointFromHash(messageHash) == 1 + (Sha256(messageHash) % (N - 1))

\* ------------------------------------------------------------ integers
IntMod == 2 ^ IntBits
IntMin == 0 - (2 ^ (IntBits - 1))
IntMax == (2 ^ (IntBits - 1)) - 1
GoInts == IntMin .. IntMax

\* nonceOffset + i in the type int
IntAdd(a, b) == ((a + b - IntMin) % IntMod) + IntMin

Abs(v) == IF v < 0 THEN 0 - v ELSE v

RECURSIVE NatBytes(_)
NatBytes(v) == IF v = 0 THEN <<>> ELSE Append(NatBytes(v \div ByteBase), v % ByteBase)

\* big.Int.Bytes: the absolute value, big-endian, no leading zeros
Bytes(v) == NatBytes(Abs(v))

\* a *big.Int that may be nil
NilScalar == [isNil |-> TRUE, v |-> 0]
Scalar(v) == [isNil |-> FALSE, v |-> v]

\* no *RingSignature
NoSigma == [Tau |-> 0, Ctlist |-> <<>>]

\* ------------------------------------------------------------ stealth.go
IsOnCurve(P) == IF P = 0 THEN identityOnCurve ELSE P \in GroupPoints

isValidSecretKey(secret) ==
    IF secret < 1 THEN FALSE
    ELSE IF secret >= N THEN FALSE
    ELSE TRUE

derivePublicKey(privateKey) == ScalarBaseMult(privateKey)

StealthPubDerive(mpk, secret) ==
    IF ~IsOnCurve(mpk) THEN NilPoint
    ELSE LET X == Sha256(secret)
             Y == derivePublicKey(X)
         IN  Add(mpk, Y)

\* the digest is multiplied into the master secret instead of added
StealthPrivDeriveMul(msk, secret) ==
    IF ~isValidSecretKey(msk) THEN NilScalar
    ELSE LET X == Sha256(secret)
             Y == msk * X
             ssk == Y % N
         IN  IF ~IsOnCurve(derivePublicKey(ssk)) THEN NilScalar ELSE Scalar(ssk)

StealthPrivDerive(msk, secret) ==
    IF ~isValidSecretKey(msk) THEN NilScalar
    ELSE LET X == Sha256(secret)
             Y == msk + X
             ssk == Y % N
         IN  IF ~IsOnCurve(derivePublicKey(ssk)) THEN NilScalar ELSE Scalar(ssk)

\* the shared secret is taken from the caller's own public key
deriveSharedSecretOwn(myPriv, theirPub) == SubSeq(Marshal(ScalarBaseMult(myPriv)), 1, 1)

deriveSharedSecret(myPriv, theirPub) == SubSeq(Marshal(ScalarMult(theirPub, myPriv)), 1, 1)

NoSession ==
    [MyPublic |-> 0, TheirPublic |-> 0, SharedSecret |-> <<>>,
     TheirAddresses |-> <<>>, MyAddresses |-> <<>>]

\* One call of NewStealthSession: what it returns (outcome, err, session) and
\* what it did on the way (secrets: secret of every iteration entered;
\* pubFailed, privFailed: the index whose derivation returned nil, or -1).
SessionReturn(outcome, err, session, secrets, pubFailed, privFailed) ==
    [outcome |-> outcome, err |-> err, session |-> session,
     secrets |-> secrets, pubFailed |-> pubFailed, privFailed |-> privFailed]

NoErr == [kind |-> "none", index |-> 0 - 1]

RECURSIVE SessionLoop(_, _, _, _, _, _, _, _)
SessionLoop(i, mySecret, theirPublic, nonceOffset, addressCount, theirAddresses, myAddresses, secrets) ==
    IF ~(i < addressCount)
    THEN SessionReturn("ok", NoErr,
            [MyPublic |-> derivePublicKey(mySecret), TheirPublic |-> theirPublic,
             SharedSecret |-> deriveSharedSecret(mySecret, theirPublic),
             TheirAddresses |-> theirAddresses, MyAddresses |-> myAddresses],
            secrets, 0 - 1, 0 - 1)
    ELSE LET nonce == IntAdd(nonceOffset, i)
             secret == deriveSharedSecret(mySecret, theirPublic) \o Bytes(nonce)
             theirStealthPub == StealthPubDerive(theirPublic, secret)
             myStealthPriv == StealthPrivDerive(mySecret, secret)
         IN  IF theirStealthPub = NilPoint
             THEN SessionReturn("error", [kind |-> "stealthPub", index |-> i], NoSession,
                                Append(secrets, secret), i, 0 - 1)
             ELSE IF myStealthPriv.isNil
             \* derivePublicKey(nil): ScalarBaseMult reads through the nil pointer
             THEN SessionReturn("panic", NoErr, NoSession, Append(secrets, secret), 0 - 1, i)
             ELSE SessionLoop(i + 1, mySecret, theirPublic, nonceOffset, addressCount,
                     Append(theirAddresses, [Public |-> theirStealthPub, Nonce |-> nonce]),
                     Append(myAddresses, [Public |-> derivePublicKey(myStealthPriv.v),
                                          Nonce |-> nonce, Private |-> myStealthPriv.v]),
                     Append(secrets, secret))

\* the loop starts at the second index
NewStealthSessionSkipFirst(mySecret, theirPublic, nonceOffset, addressCount) ==
    IF ~isValidSecretKey(mySecret)
    THEN SessionReturn("error", [kind |-> "secret", index |-> 0 - 1], NoSession, <<>>, 0 - 1, 0 - 1)
    ELSE IF theirPublic = NilPoint
    THEN SessionReturn("error", [kind |-> "nullPublic", index |-> 0 - 1], NoSession, <<>>, 0 - 1, 0 - 1)
    ELSE SessionLoop(1, mySecret, theirPublic, nonceOffset, addressCount, <<>>, <<>>, <<>>)

NewStealthSession(mySecret, theirPublic, nonceOffset, addressCount) ==
    IF ~isValidSecretKey(mySecret)
    THEN SessionReturn("error", [kind |-> "secret", index |-> 0 - 1], NoSession, <<>>, 0 - 1, 0 - 1)
    ELSE IF theirPublic = NilPoint
    THEN SessionReturn("error", [kind |-> "nullPublic", index |-> 0 - 1], NoSession, <<>>, 0 - 1, 0 - 1)
    ELSE SessionLoop(0, mySecret, theirPublic, nonceOffset, addressCount, <<>>, <<>>, <<>>)

\* ------------------------------------------------------------ ring.go
\* copy(messageHash[:], message): the first HashLen bytes, zero-filled
CopyMessage(msg) == [i \in 1 .. HashLen |-> IF i <= Len(msg) THEN msg[i] ELSE 0]

\* the key image is anchored at the base point instead of the message's point
KeyImageBase(hashp, pk) == ScalarBaseMult(pk % N)

\* pk.Mod(pk, N); hashSP := hashp.ScalarMult(pk)
KeyImage(hashp, pk) == ScalarMult(hashp, pk % N)

\* hashAcc of the first step: H(hashp.X, tau)
HashStart(hashp, tau) == Sha256(SubSeq(Marshal(hashp), 1, 1) \o Marshal(tau))

\* hashAcc of a later step: H(hashAcc, a, b)
HashNext(hashAcc, a, b) == Sha256(<<hashAcc>> \o Marshal(a) \o Marshal(b))

\* the signer's challenge: c = hashb - csum (mod N)
Challenge(hashAcc, csum) == ((hashAcc % N) - (csum % N)) % N

\* the response adds c * pk instead of subtracting it
ResponseAdd(ri, c, pk) == (ri + ((c * pk) % N)) % N

\* the signer's response: ti = ri - c * pk (mod N)
Response(ri, c, pk) == (ri - ((c * pk) % N)) % N

\* One iteration of the signing loop.  draw holds what RandomN returns in
\* this iteration: cj and tj for a decoy, ri for the signer.
SignStep(acc, j, PubKeys, signer, hashp, hashSP, draw) ==
    IF j # signer
    THEN LET a == ParameterPointAdd(PubKeys[j + 1], draw.tj, draw.cj)
             b == HashPointAdd(hashp, hashSP, draw.tj, draw.cj)
         IN  [ctlist |-> acc.ctlist \o <<draw.cj, draw.tj>>,
              csum |-> acc.csum + draw.cj,
              ri |-> acc.ri,
              hashAcc |-> HashNext(acc.hashAcc, a, b)]
    ELSE LET a == ScalarBaseMult(draw.ri)
             b == ScalarMult(hashp, draw.ri)
         IN  [ctlist |-> acc.ctlist \o <<0, 0>>,
              csum |-> acc.csum,
              ri |-> Scalar(draw.ri),
              hashAcc |-> HashNext(acc.hashAcc, a, b)]

RECURSIVE SignLoop(_, _, _, _, _, _, _)
SignLoop(acc, j, PubKeys, signer, hashp, hashSP, draws) ==
    IF ~(j < Len(PubKeys)) THEN acc
    ELSE SignLoop(SignStep(acc, j, PubKeys, signer, hashp, hashSP, draws[j + 1]),
                  j + 1, PubKeys, signer, hashp, hashSP, draws)

\* Ring.Signature.  Returns the outcome, the value pk holds afterwards and
\* the signature.  A signer outside the ring leaves ri nil, and the
\* subtraction ri - cx reads through it.
Signature(PubKeys, pk, msg, signer, draws) ==
    LET hashp == NewCurvePointFromHash(CopyMessage(msg))
        pkMod == pk % N
        hashSP == KeyImage(hashp, pk)
        acc == SignLoop([ctlist |-> <<>>, csum |-> 0, ri |-> NilScalar,
                         hashAcc |-> HashStart(hashp, hashSP)],
                        0, PubKeys, signer, hashp, hashSP, draws)
        c == Challenge(acc.hashAcc, acc.csum)
        ti == Response(acc.ri.v, c, pkMod)
    IN  IF acc.ri.isNil
        THEN [outcome |-> "panic", pk |-> pkMod, sig |-> NoSigma]
        ELSE [outcome |-> "ok", pk |-> pkMod,
              sig |-> [Tau |-> hashSP,
                       Ctlist |-> [i \in 1 .. Len(acc.ctlist) |->
                                     IF i = 2 * signer + 1 THEN c
                                     ELSE IF i = 2 * signer + 2 THEN ti
                                     ELSE acc.ctlist[i]]]]

\* hashout.Mod(hashout, N); csum.Mod(csum, N); csum.Cmp(hashout) == 0
Verdict(csum, hashAcc) == (csum % N) = (hashAcc % N)

\* The verification loop.  Reading ctlist[2*j] or ctlist[2*j+1] past the end
\* of the slice aborts the call; cj.Mod and tj.Mod write the reduced values
\* back into the signature's big.Ints.
RECURSIVE VerifyLoop(_, _, _, _, _, _, _)
VerifyLoop(j, PubKeys, hashp, tau, ctlist, hashAcc, csum) ==
    IF ~(j < Len(PubKeys))
    THEN [outcome |-> IF Verdict(csum, hashAcc) THEN "true" ELSE "false",
          ctlist |-> ctlist]
    ELSE IF 2 * j + 2 > Len(ctlist)
    THEN [outcome |-> "panic", ctlist |-> ctlist]
    ELSE LET cj == ctlist[2 * j + 1] % N
             tj == ctlist[2 * j + 2] % N
             yc == ScalarMult(PubKeys[j + 1], cj)
             gt == Add(ScalarBaseMult(tj), yc)
             tauc == ScalarMult(tau, cj)
             H == Add(ScalarMult(hashp, tj), tauc)
         IN  VerifyLoop(j + 1, PubKeys, hashp, tau,
                        [ctlist EXCEPT ![2 * j + 1] = cj, ![2 * j + 2] = tj],
                        HashNext(hashAcc, gt, H), (csum + cj) % N)

\* Ring.VerifySignature.  Returns the verdict and the values the signature's
\* scalars hold afterwards.
VerifySignature(PubKeys, msg, sig) ==
    LET hashp == NewCurvePointFromHash(CopyMessage(msg))
    IN  VerifyLoop(0, PubKeys, hashp, sig.Tau, sig.Ctlist,
                   HashStart(hashp, sig.Tau), 0)

\* ------------------------------------------------------------ inputs
ScalarInputs == (0 - 1) .. (N + 1)

RECURSIVE SeqsUpTo(_, _)
SeqsUpTo(S, n) ==
    IF n = 0 THEN {<<>>}
    ELSE LET shorter == SeqsUpTo(S, n - 1)
         IN  shorter \cup {Append(s, e) : s \in {t \in shorter : Len(t) = n - 1}, e \in S}

SecretInputs == SeqsUpTo(0 .. 2, MaxSecretLen)

NoCall == [called |-> FALSE]

\* ------------------------------------------------------------ stealth callers
\* Nothing has been called yet.
Idle ==
    /\ pc = "idle"
    /\ derived = NoCall
    /\ sessionA = NoCall
    /\ sessionB = NoCall
    /\ ring = [PubKeys |-> <<>>, PrivKeys |-> <<>>]
    /\ message = <<>>
    /\ callerPk = 0
    /\ sigma = NoSigma
    /\ first = NoCall
    /\ signRet = NoCall
    /\ verifyRet = NoCall

\* The library's treatment of the identity is fixed for the run.
InitStealth == N = StealthOrder /\ identityOnCurve \in BOOLEAN /\ Idle

\* A master key pair (msk, [msk]G); the owner derives the stealth secret, the
\* counter-party the stealth public key, from the same secret.
Derive ==
    /\ pc = "idle"
    /\ \E msk \in ScalarInputs, secret \in SecretInputs :
        derived' = [called |-> TRUE, msk |-> msk, secret |-> secret,
                    mpk |-> derivePublicKey(msk),
                    ssk |-> StealthPrivDerive(msk, secret),
                    spk |-> StealthPubDerive(derivePublicKey(msk), secret)]
    /\ pc' = "derived"
    /\ UNCHANGED <<N, identityOnCurve, sessionA, sessionB, ringVars>>

SessionCall(mySecret, theirPublic, nonceOffset, addressCount) ==
    [called |-> TRUE, mySecret |-> mySecret, theirPublic |-> theirPublic,
     nonceOffset |-> nonceOffset, addressCount |-> addressCount,
     ret |-> NewStealthSession(mySecret, theirPublic, nonceOffset, addressCount)]

\* Party A opens a session towards theirPublic.
OpenSessionA ==
    /\ pc = "idle"
    /\ \E mySecret \in ScalarInputs, theirPublic \in Points \cup {NilPoint},
          nonceOffset \in GoInts, addressCount \in 0 .. MaxCount :
        sessionA' = SessionCall(mySecret, theirPublic, nonceOffset, addressCount)
    /\ pc' = "sessionA"
    /\ UNCHANGED <<N, identityOnCurve, derived, sessionB, ringVars>>

\* Party B, holding a secret b, opens the session towards A's public key
\* with the same nonce range.
OpenSessionB ==
    /\ pc = "sessionA"
    /\ \E b \in ScalarInputs :
        sessionB' = SessionCall(b, derivePublicKey(sessionA.mySecret),
                                sessionA.nonceOffset, sessionA.addressCount)
    /\ pc' = "sessionB"
    /\ UNCHANGED <<N, identityOnCurve, derived, sessionA, ringVars>>

NextStealth == Derive \/ OpenSessionA \/ OpenSessionB

SpecStealth == InitStealth /\ [][NextStealth]_vars
\* ------------------------------------------------------------ ring callers
\* ring.go never calls IsOnCurve.
InitRing == N = RingOrder /\ identityOnCurve = TRUE /\ Idle

Messages == SeqsUpTo({0, 1}, HashLen + 1)
Digests == {m \in Messages : Len(m) = HashLen}

\* the rings Ring.Generate builds, by their private keys
RingKeys == {k \in SeqsUpTo(RandomN, MaxRing) : Len(k) >= 1}

GeneratedRing(privs) ==
    [PubKeys |-> [i \in 1 .. Len(privs) |-> derivePublicKey(privs[i])], PrivKeys |-> privs]

\* what RandomN returns during one Signature call; a value the call never
\* draws is pinned to 1
Draws(n, signer) ==
    {d \in [1 .. n -> [cj : RandomN, tj : RandomN, ri : RandomN]] :
        \A i \in 1 .. n :
            IF i = signer + 1 THEN d[i].cj = 1 /\ d[i].tj = 1 ELSE d[i].ri = 1}

\* the secret of ring member signer, also as a big.Int outside [0, N)
\* (signer = Len(privs) is the index past the ring)
PkInputs(privs, signer) ==
    LET x == IF signer < Len(privs) THEN privs[signer + 1] ELSE privs[1]
    IN  {x - N, x, x + N}

\* r.Signature(pk, message, signer): the caller's view of one call
SignCall(privs, pk, msg, signer, draws) ==
    LET ret == Signature(GeneratedRing(privs).PubKeys, pk, msg, signer, draws)
    IN  /\ ring' = GeneratedRing(privs)
        /\ message' = msg
        /\ callerPk' = ret.pk
        /\ sigma' = ret.sig
        /\ signRet' = [called |-> TRUE, pk |-> pk, signer |-> signer,
                       outcome |-> ret.outcome]
        /\ pc' = "signed"

\* A member signs a digest with its secret and keeps the key image only.
SignFirst ==
    /\ pc = "idle"
    /\ ~first.called
    /\ \E privs \in RingKeys :
       \E signer \in 0 .. (Len(privs) - 1), msg \in Digests :
       \E draws \in Draws(Len(privs), signer) :
          LET ret == Signature(GeneratedRing(privs).PubKeys, privs[signer + 1], msg, signer, draws)
          IN  first' = [called |-> TRUE, pk |-> privs[signer + 1], message |-> msg,
                        n |-> Len(privs), signer |-> signer, Tau |-> ret.sig.Tau]
    /\ UNCHANGED <<N, identityOnCurve, pc, stealthVars,
                   ring, message, callerPk, sigma, signRet, verifyRet>>

\* The same member signs the same digest again, in any ring it belongs to.
SignAgain ==
    /\ pc = "idle"
    /\ first.called
    /\ \E privs \in RingKeys :
       \E signer \in 0 .. (Len(privs) - 1) :
       \E draws \in Draws(Len(privs), signer) :
          /\ privs[signer + 1] = first.pk
          /\ SignCall(privs, first.pk, first.message, signer, draws)
    /\ UNCHANGED <<N, identityOnCurve, stealthVars, first, verifyRet>>

\* Any call of Signature: any ring, any index up to the one past the ring,
\* any message, the member's secret as any big.Int congruent to it.
Sign ==
    /\ pc = "idle"
    /\ ~first.called
    /\ \E privs \in RingKeys :
       \E signer \in 0 .. Len(privs), msg \in Messages :
       \E pk \in PkInputs(privs, signer), draws \in Draws(Len(privs), signer) :
          SignCall(privs, pk, msg, signer, draws)
    /\ UNCHANGED <<N, identityOnCurve, stealthVars, first, verifyRet>>

\* The caller receives a signature from elsewhere: a ring of n copies of one
\* key, any Tau, and len scalars c, t, c, t, ...
Receive ==
    /\ pc = "idle"
    /\ ~first.called
    /\ \E n \in 0 .. MaxRing, key \in RandomN, len \in 0 .. (2 * MaxRing + 1) :
       \E c \in ScalarInputs, t \in ScalarInputs, tau \in Points, msg \in Digests :
          /\ ring' = [PubKeys |-> [i \in 1 .. n |-> derivePublicKey(key)], PrivKeys |-> <<>>]
          /\ message' = msg
          /\ sigma' = [Tau |-> tau, Ctlist |-> [i \in 1 .. len |-> IF i % 2 = 1 THEN c ELSE t]]
    /\ pc' = "received"
    /\ UNCHANGED <<N, identityOnCurve, stealthVars, callerPk, first, signRet, verifyRet>>

\* r.VerifySignature(message, sigma)
Verify ==
    /\ \/ pc = "signed" /\ signRet.outcome = "ok" /\ ~first.called
       \/ pc = "received"
    /\ LET ret == VerifySignature(ring.PubKeys, message, sigma)
       IN  /\ verifyRet' = [called |-> TRUE, sigma |-> sigma, verdict |-> ret.outcome]
           /\ sigma' = [sigma EXCEPT !.Ctlist = ret.ctlist]
    /\ pc' = "verified"
    /\ UNCHANGED <<N, identityOnCurve, stealthVars, ring, message, callerPk, first, signRet>>

NextRing == SignFirst \/ SignAgain \/ Sign \/ Receive \/ Verify

SpecRing == InitRing /\ [][NextRing]_vars

\* ------------------------------------------------------------ stealth claims
ValidDerive == derived.called /\ isValidSecretKey(derived.msk)

BothSucceed ==
    /\ pc = "sessionB"
    /\ sessionA.ret.outcome = "ok"
    /\ sessionB.ret.outcome = "ok"
    /\ sessionA.theirPublic = derivePublicKey(sessionB.mySecret)

\* the addresses X derived for the other party are the ones Y holds keys for
Matches(X, Y) ==
    /\ Len(X.TheirAddresses) = Len(Y.MyAddresses)
    /\ \A i \in 1 .. Len(X.TheirAddresses) :
        /\ X.TheirAddresses[i].Public = Y.MyAddresses[i].Public
        /\ Y.MyAddresses[i].Public = ScalarBaseMult(Y.MyAddresses[i].Private)

\* C3: two parties that open a session towards each other with the same nonce
\* range get the same shared secret, and each one's TheirAddresses are the
\* public keys of the other one's MyAddresses, which the other one can unlock.
C3_SessionAgreement ==
    BothSucceed =>
        /\ sessionA.ret.session.SharedSecret = sessionB.ret.session.SharedSecret
        /\ Matches(sessionA.ret.session, sessionB.ret.session)
        /\ Matches(sessionB.ret.session, sessionA.ret.session)

C3_Witness ==
    /\ BothSucceed
    /\ sessionA.addressCount >= 2
    /\ sessionA.mySecret # sessionB.mySecret
    /\ Len(sessionB.ret.session.MyAddresses) = sessionA.addressCount

\* C5: when a sub-derivation of NewStealthSession returns nil at index i, the
\* call returns an error that names i (it does not go on with the nil).
C5_FailsCleanly ==
    /\ sessionA.called /\ sessionA.ret.pubFailed >= 0 =>
        /\ sessionA.ret.outcome = "error"
        /\ sessionA.ret.err.index = sessionA.ret.pubFailed
    /\ sessionA.called /\ sessionA.ret.privFailed >= 0 =>
        /\ sessionA.ret.outcome = "error"
        /\ sessionA.ret.err.index = sessionA.ret.privFailed

\* C7: a session that NewStealthSession returns has addressCount addresses in
\* both lists, the i-th of them with the nonce nonceOffset + i (in the type
\* int), and every own address has the public key of its private key.
C7_WellFormed ==
    sessionA.called /\ sessionA.ret.outcome = "ok" =>
        LET s == sessionA.ret.session IN
        /\ Len(s.TheirAddresses) = sessionA.addressCount
        /\ Len(s.MyAddresses) = sessionA.addressCount
        /\ \A i \in 1 .. sessionA.addressCount :
            /\ s.TheirAddresses[i].Nonce = IntAdd(sessionA.nonceOffset, i - 1)
            /\ s.MyAddresses[i].Nonce = IntAdd(sessionA.nonceOffset, i - 1)
            /\ s.MyAddresses[i].Public = ScalarBaseMult(s.MyAddresses[i].Private)

C7_Witness ==
    /\ sessionA.called
    /\ sessionA.ret.outcome = "ok"
    /\ sessionA.addressCount = MaxCount
    /\ Len(sessionA.ret.session.MyAddresses) = MaxCount

\* the empty session
C7_WitnessEmpty ==
    /\ sessionA.called
    /\ sessionA.ret.outcome = "ok"
    /\ sessionA.addressCount = 0
    /\ sessionA.ret.session.MyAddresses = <<>>

\* C10: no two indices of one NewStealthSession call get the same secret.
C10_DistinctSecrets ==
    sessionA.called =>
        \A i, j \in 1 .. Len(sessionA.ret.secrets) :
            i # j => sessionA.ret.secrets[i] # sessionA.ret.secrets[j]
\* ------------------------------------------------------------ ring claims
\* the last Signature call was made by ring member signer with its own secret,
\* over a digest, and its signature has been verified
SignedThenVerified ==
    /\ pc = "verified"
    /\ signRet.called
    /\ signRet.outcome = "ok"
    /\ isValidSecretKey(signRet.pk)
    /\ derivePublicKey(signRet.pk) = ring.PubKeys[signRet.signer + 1]
    /\ Len(message) = HashLen

\* C1: VerifySignature accepts every signature that Signature makes for a
\* member of the ring with that member's secret, whatever the ring, the
\* signer's index, the digest and the random scalars.
C1_SignThenVerify == SignedThenVerified => verifyRet.verdict = "true"

\* a ring with a decoy, signed by its last member
C1_Witness ==
    /\ SignedThenVerified
    /\ Len(ring.PubKeys) = MaxRing
    /\ signRet.signer = MaxRing - 1
    /\ verifyRet.verdict = "true"

\* the ring of one key
C1_WitnessSingle ==
    /\ SignedThenVerified
    /\ Len(ring.PubKeys) = 1
    /\ verifyRet.verdict = "true"

\* C4: VerifySignature returns false for every signature whose Ctlist does not
\* have two scalars per ring member.
C4_RejectsMalformed ==
    verifyRet.called /\ Len(verifyRet.sigma.Ctlist) # 2 * Len(ring.PubKeys) =>
        verifyRet.verdict = "false"

\* C6: the Tau that Signature returns for secret x and digest m is
\* [x]HashToCurve(m), and so equals the Tau of any earlier Signature call with
\* the same x and m, whatever the rings, signer indices and random scalars.
C6_Linkable ==
    pc = "signed" /\ signRet.outcome = "ok" /\ Len(message) = HashLen =>
        /\ sigma.Tau = ScalarMult(NewCurvePointFromHash(message), signRet.pk)
        /\ first.called /\ first.pk = signRet.pk /\ first.message = message =>
            sigma.Tau = first.Tau

\* the same secret and digest, signed in rings of different sizes
C6_Witness ==
    /\ pc = "signed"
    /\ signRet.outcome = "ok"
    /\ first.called
    /\ first.pk = signRet.pk
    /\ first.message = message
    /\ first.n # Len(ring.PubKeys)
    /\ first.signer # signRet.signer
    /\ sigma.Tau = first.Tau

\* C8: Signature leaves the caller's pk as it was, and VerifySignature leaves
\* the signature's scalars as they were.
C8_InputsUntouched ==
    /\ signRet.called => callerPk = signRet.pk
    /\ verifyRet.called => sigma = verifyRet.sigma

\* C9: Signature returns an error for, and VerifySignature does not accept, a
\* message that is not exactly one digest long.
C9_LengthEnforced ==
    /\ signRet.called /\ Len(message) # HashLen => signRet.outcome = "error"
    /\ verifyRet.called /\ Len(message) # HashLen => verifyRet.verdict # "true"
====
